---- MODULE Spec2Model ----
(***************************************************************************)
(* Model of src/main.rs: the recursive Value type (Int, Rc, List), its     *)
(* constructors, Value::resolve, the derived Clone, and the Debug          *)
(* implementation that renders a Value through ValueFormatter::visit.      *)
(*                                                                         *)
(* Memory is a map from addresses to Values.  Every place a Value lives    *)
(* has an address: a local variable, an element of a Vec buffer, and the   *)
(* payload of the Option inside an Rc<RefCell<Option<Value>>>.  The        *)
(* formatter keys its visited set on `x as *const Value`, so addresses of  *)
(* Values are what the model has to keep apart.  An Rc allocation is named *)
(* by the address of its payload slot.                                     *)
(***************************************************************************)
EXTENDS Integers, Sequences, FiniteSets, TLC

\* Bounds of the model
MaxAddr == 5
MaxLen == 2
MaxResolve == 2

\* i64 arguments the caller passes to int()
Ints == {-42}

Addr == 1..MaxAddr

VARIABLES
  mem,       \* Addr -> the Value (or None / Free) stored at that address
  next,      \* the next address the allocator hands out
  locals,    \* addresses of the caller's live local variables
  vec,       \* the Vec a vec![...] expression is filling (element addresses)
  nres,      \* number of resolve calls made so far
  building,  \* TRUE while a vec![...] expression is being evaluated
  borrow,    \* Addr -> RefCell borrow flag of the Rc at that slot (-1 writing, n readers)
  panicked,  \* "" or the message of the panic that ended the program
  fmt,       \* "idle" or "run": whether a Debug::fmt call is in progress
  root,      \* the Value address the current / last fmt call was given
  fstack,    \* the call stack of ValueFormatter::visit
  visited,   \* ValueFormatter.visited
  chunks,    \* ValueFormatter.chunks
  out,       \* the string the last completed fmt call wrote
  prevOut,   \* the string written by the fmt call before it, when it was on
             \* the same root with no resolve in between; NoOut otherwise
  calls,     \* history: one record per returned visit call
  ncalls     \* history: number of visit calls entered in this fmt call

vars == <<mem, next, locals, vec, nres, building, borrow, panicked,
             fmt, root, fstack, visited, chunks, out, prevOut, calls, ncalls>>

NoOut == "<none>"
NoRoot == 0

----------------------------------------------------------------------------
\* enum Value and the contents of an address

IntV(n) == [tag |-> "Int", n |-> n]
RcV(c) == [tag |-> "Rc", rc |-> c]
ListV(xs) == [tag |-> "List", xs |-> xs]
None == [tag |-> "None"]
Free == [tag |-> "Free"]

----------------------------------------------------------------------------
\* Display of an i64 (what format!("{}", x) yields for the Int payload)

Digit == <<"0", "1", "2", "3", "4", "5", "6", "7", "8", "9">>

RECURSIVE DecNat(_)
DecNat(n) ==
  IF n < 10 THEN Digit[n + 1] ELSE DecNat(n \div 10) \o Digit[(n % 10) + 1]

Dec(n) == IF n < 0 THEN "-" \o DecNat(0 - n) ELSE DecNat(n)

\* ValueFormatter::add: push the Display form of x (a chunk) on the buffer
add(cs, x) == Append(cs, x)

\* A faulty string: the chunks joined with a space
RECURSIVE stringSpaced(_)
stringSpaced(cs) ==
  IF cs = <<>> THEN ""
  ELSE IF Tail(cs) = <<>> THEN Head(cs)
  ELSE Head(cs) \o " " \o stringSpaced(Tail(cs))

\* ValueFormatter::string: chunks.join("")
RECURSIVE string(_)
string(cs) == IF cs = <<>> THEN "" ELSE Head(cs) \o string(Tail(cs))

----------------------------------------------------------------------------
\* #[derive(Clone)]: Int by value, Rc by handle, List element by element
\* into a freshly allocated buffer.

RECURSIVE CloneSize(_, _)
RECURSIVE SumSizes(_, _, _)
SumSizes(m, xs, i) ==
  IF i > Len(xs) THEN 0 ELSE CloneSize(m, xs[i]) + SumSizes(m, xs, i + 1)
CloneSize(m, src) ==
  IF m[src].tag = "List" THEN Len(m[src].xs) + SumSizes(m, m[src].xs, 1) ELSE 0

RECURSIVE CloneValue(_, _, _)
RECURSIVE CloneElems(_, _, _, _, _)
CloneElems(m, n, xs, ys, i) ==
  IF i > Len(xs) THEN [mem |-> m, next |-> n]
  ELSE LET r == CloneValue(m, n, xs[i])
       IN CloneElems([r.mem EXCEPT ![ys[i]] = r.val], r.next, xs, ys, i + 1)
\* Clone the Value at src; n is the next free address.  Yields the clone
\* (val), the memory holding the buffers it owns, and the next free address.
CloneValue(m, n, src) ==
  IF m[src].tag = "List"
  THEN LET xs == m[src].xs
           ys == [i \in 1..Len(xs) |-> n + i - 1]
           r == CloneElems(m, n + Len(xs), xs, ys, 1)
       IN [mem |-> r.mem, next |-> r.next, val |-> ListV(ys)]
  ELSE [mem |-> m, next |-> n, val |-> m[src]]

----------------------------------------------------------------------------
Init ==
  /\ mem = [a \in Addr |-> Free]
  /\ next = 1
  /\ locals = {}
  /\ vec = <<>>
  /\ building = FALSE
  /\ nres = 0
  /\ borrow = [a \in Addr |-> 0]
  /\ panicked = ""
  /\ fmt = "idle"
  /\ root = NoRoot
  /\ fstack = <<>>
  /\ visited = {}
  /\ chunks = <<>>
  /\ out = NoOut
  /\ prevOut = NoOut
  /\ calls = <<>>
  /\ ncalls = 0

\* The caller runs only between fmt calls and only while the program lives.
CallerTurn == panicked = "" /\ fmt = "idle"

\* A caller statement other than a fmt call: the ValueFormatter of the last
\* fmt call is long dropped and the string it wrote is no longer compared.
Forget ==
  /\ root' = NoRoot
  /\ fstack' = <<>>
  /\ visited' = {}
  /\ chunks' = <<>>
  /\ out' = NoOut
  /\ prevOut' = NoOut
  /\ calls' = <<>>
  /\ ncalls' = 0
  /\ fmt' = fmt

----------------------------------------------------------------------------
\* The constructors, bound to a new local:  let v = rc();  let v = int(n);
\* Declarations of locals that do not use each other commute, so the caller
\* declares its Rc locals first, then its Int locals, then its lists: every
\* graph the other orders build is built by this one at other addresses.

OnlyRcLocals ==
  \A a \in 1..(next - 1) :
    \/ mem[a].tag = "Rc" /\ a \in locals
    \/ mem[a].tag = "None"

OnlyRcAndIntLocals ==
  \A a \in 1..(next - 1) :
    \/ mem[a].tag \in {"Rc", "Int"} /\ a \in locals
    \/ mem[a].tag = "None"

LetInt(n) ==
  /\ CallerTurn /\ ~building
  /\ OnlyRcAndIntLocals
  /\ next <= MaxAddr
  /\ mem' = [mem EXCEPT ![next] = IntV(n)]
  /\ locals' = locals \cup {next}
  /\ next' = next + 1
  /\ Forget
  /\ UNCHANGED <<vec, building, nres, borrow, panicked>>

LetRc ==
  /\ CallerTurn /\ ~building
  /\ OnlyRcLocals
  /\ next + 1 <= MaxAddr
  /\ mem' = [mem EXCEPT ![next] = RcV(next + 1), ![next + 1] = None]
  /\ locals' = locals \cup {next}
  /\ next' = next + 2
  /\ Forget
  /\ UNCHANGED <<vec, building, nres, borrow, panicked>>

\* vec![e1, ..., ek]: the elements are evaluated in order into the buffer.
VecNew ==
  /\ CallerTurn /\ ~building
  /\ building' = TRUE
  /\ vec' = <<>>
  /\ Forget
  /\ UNCHANGED <<nres, mem, next, locals, borrow, panicked>>

VecPushInt(n) ==
  /\ CallerTurn /\ building
  /\ Len(vec) < MaxLen
  /\ next <= MaxAddr
  /\ mem' = [mem EXCEPT ![next] = IntV(n)]
  /\ vec' = Append(vec, next)
  /\ next' = next + 1
  /\ Forget
  /\ UNCHANGED <<locals, building, nres, borrow, panicked>>

VecPushRc ==
  /\ CallerTurn /\ building
  /\ Len(vec) < MaxLen
  /\ next + 1 <= MaxAddr
  /\ mem' = [mem EXCEPT ![next] = RcV(next + 1), ![next + 1] = None]
  /\ vec' = Append(vec, next)
  /\ next' = next + 2
  /\ Forget
  /\ UNCHANGED <<locals, building, nres, borrow, panicked>>

VecPushClone(v) ==
  /\ CallerTurn /\ building
  /\ v \in locals
  /\ Len(vec) < MaxLen
  /\ next + CloneSize(mem, v) <= MaxAddr
  /\ LET r == CloneValue(mem, next + 1, v)
     IN /\ mem' = [r.mem EXCEPT ![next] = r.val]
        /\ next' = r.next
  /\ vec' = Append(vec, next)
  /\ Forget
  /\ UNCHANGED <<locals, building, nres, borrow, panicked>>

\* let v = list(vec![...]);
LetList ==
  /\ CallerTurn /\ building
  /\ next <= MaxAddr
  /\ mem' = [mem EXCEPT ![next] = ListV(vec)]
  /\ locals' = locals \cup {next}
  /\ next' = next + 1
  /\ vec' = <<>>
  /\ building' = FALSE
  /\ Forget
  /\ UNCHANGED <<nres, borrow, panicked>>

----------------------------------------------------------------------------
\* Value::resolve(&mut self, value)

\* A faulty Store: a cell that keeps its first binding
StoreOnce(m, c, v) == IF m[c] = None THEN [m EXCEPT ![c] = v] ELSE m

\* *x.borrow_mut() = Some(value)
Store(m, c, v) == [m EXCEPT ![c] = v]

\* A faulty ResolveNonRc: the call on a non-Rc value returns silently
ResolveNonRcIgnored(m, t, v) == [mem |-> m, panicked |-> ""]

\* else { panic!("Attempt to resolve non-rc value") }: value is dropped
ResolveNonRc(m, t, v) ==
  [mem |-> m, panicked |-> "Attempt to resolve non-rc value"]

\* The body of resolve on target t, with the memory m and the next free
\* address n left by evaluating the argument, whose Value is v.  m0, n0 are
\* the memory and next free address once a panic has dropped the argument.
resolve(t, m, n, v, m0, n0) ==
  IF m[t].tag = "Rc"
  THEN LET c == m[t].rc
       IN IF borrow[c] # 0
          THEN /\ panicked' = "already borrowed: BorrowMutError"
               /\ mem' = m0
               /\ next' = n0
          ELSE /\ panicked' = panicked
               /\ mem' = Store(m, c, v)
               /\ next' = n
  ELSE LET r == ResolveNonRc(m0, t, v)
       IN /\ panicked' = r.panicked
          /\ mem' = r.mem
          /\ next' = n0

\* t.resolve(int(n))
ResolveInt(t, n) ==
  /\ CallerTurn /\ ~building
  /\ nres < MaxResolve
  /\ nres' = nres + 1
  /\ t \in locals
  /\ resolve(t, mem, next, IntV(n), mem, next)
  /\ Forget
  /\ UNCHANGED <<locals, vec, building, borrow>>

\* t.resolve(w.clone())
ResolveClone(t, w) ==
  /\ CallerTurn /\ ~building
  /\ nres < MaxResolve
  /\ nres' = nres + 1
  /\ t \in locals /\ w \in locals
  /\ next + CloneSize(mem, w) - 1 <= MaxAddr
  /\ LET r == CloneValue(mem, next, w)
     IN resolve(t, r.mem, r.next, r.val, mem, next)
  /\ Forget
  /\ UNCHANGED <<locals, vec, building, borrow>>

\* t.resolve(w): w is moved into the call
ResolveMove(t, w) ==
  /\ CallerTurn /\ ~building
  /\ nres < MaxResolve
  /\ nres' = nres + 1
  /\ t \in locals /\ w \in locals /\ t # w
  /\ LET m == [mem EXCEPT ![w] = Free]
     IN resolve(t, m, next, mem[w], m, next)
  /\ locals' = locals \ {w}
  /\ Forget
  /\ UNCHANGED <<vec, building, borrow>>

----------------------------------------------------------------------------
\* impl Debug for Value: fmt, and ValueFormatter::visit with its recursion
\* unfolded on an explicit call stack.

\* A faulty NewFormatter: the visited set of the last call is kept
StaleFormatter == [visited |-> visited, chunks |-> <<>>]

\* ValueFormatter::default()
NewFormatter == [visited |-> {}, chunks |-> <<>>]

\* A visit call on the Value at address a; start is the length of the
\* buffer on entry, seq the number of the call.
Frame(a, seq, start) ==
  [ptr |-> a, pc |-> "visit", i |-> 0, seq |-> seq, start |-> start]

Top == fstack[Len(fstack)]
Running == fmt = "run" /\ panicked = "" /\ fstack # <<>>
Entering == Running /\ Top.pc = "visit"

\* A faulty PtrOf: an Rc is keyed by its storage, not by the Value's address
PtrOfStorage(a) == IF mem[a].tag = "Rc" THEN mem[a].rc ELSE a

\* let ptr = x as *const Value
PtrOf(a) == a

\* self.visited.contains(&ptr)
Seen(s, p) == p \in s

\* A faulty Insert: the node is never recorded
InsertNothing(s, p) == s

\* self.visited.insert(ptr)
Insert(s, p) == s \cup {p}

\* RefCell::borrow: fails while the cell is mutably borrowed
CanBorrow(b) == b >= 0

\* A faulty Peek: the contents are taken out of the cell
Take(m, c) == [m EXCEPT ![c] = None]

\* &*x.borrow(): a shared reference to the contents of the cell at c;
\* yields the memory the read leaves behind
Peek(m, c) == m

\* A faulty OnNone: the contents are unwrapped
OnNoneUnwrap ==
  [panicked |-> "called Option::unwrap() on a None value", text |-> ""]

\* None => self.add("uninit")
OnNone == [panicked |-> "", text |-> "uninit"]

\* The call in the top frame returns, having left the buffer cs.
Return(hit, cs) ==
  /\ fstack' = SubSeq(fstack, 1, Len(fstack) - 1)
  /\ calls' = Append(calls, [ptr |-> Top.ptr, hit |-> hit, seq |-> Top.seq,
                             start |-> Top.start, end |-> Len(cs)])

\* The top frame, now at pc with index i, calls visit on the Value at a.
Call(pc, i, a, cs) ==
  /\ fstack' = Append([fstack EXCEPT ![Len(fstack)] = [@ EXCEPT !.pc = pc, !.i = i]],
                      Frame(a, ncalls + 1, Len(cs)))
  /\ ncalls' = ncalls + 1
  /\ calls' = calls

\* fmt: create the helper and call visit(self)
FmtBegin(r) ==
  /\ CallerTurn /\ ~building
  /\ r \in locals
  /\ visited' = NewFormatter.visited
  /\ chunks' = NewFormatter.chunks
  /\ fstack' = <<Frame(r, 1, 0)>>
  /\ ncalls' = 1
  /\ calls' = <<>>
  /\ fmt' = "run"
  /\ root' = r
  /\ prevOut' = IF root = r THEN out ELSE NoOut
  /\ out' = NoOut
  /\ UNCHANGED <<mem, next, locals, vec, building, nres, borrow, panicked>>

\* true => self.add("*")
VisitSeen ==
  /\ Entering
  /\ Seen(visited, PtrOf(Top.ptr))
  /\ chunks' = add(chunks, "*")
  /\ Return(TRUE, chunks')
  /\ UNCHANGED <<mem, next, locals, vec, building, nres, borrow, panicked,
                 fmt, root, visited, out, prevOut, ncalls>>

\* Value::Int(x) => self.add(x)
VisitInt ==
  /\ Entering
  /\ ~Seen(visited, PtrOf(Top.ptr))
  /\ mem[Top.ptr].tag = "Int"
  /\ visited' = Insert(visited, PtrOf(Top.ptr))
  /\ chunks' = add(chunks, Dec(mem[Top.ptr].n))
  /\ Return(FALSE, chunks')
  /\ UNCHANGED <<mem, next, locals, vec, building, nres, borrow, panicked,
                 fmt, root, out, prevOut, ncalls>>

\* Value::Rc(x) => match &*x.borrow() { None => self.add("uninit"), .. }
VisitRcNone ==
  /\ Entering
  /\ ~Seen(visited, PtrOf(Top.ptr))
  /\ mem[Top.ptr].tag = "Rc"
  /\ mem[mem[Top.ptr].rc] = None
  /\ visited' = Insert(visited, PtrOf(Top.ptr))
  /\ IF ~CanBorrow(borrow[mem[Top.ptr].rc])
     THEN /\ panicked' = "already mutably borrowed: BorrowError"
          /\ UNCHANGED <<chunks, fstack, calls>>
     ELSE /\ panicked' = OnNone.panicked
          /\ IF OnNone.panicked = ""
             THEN /\ chunks' = add(chunks, OnNone.text)
                  /\ Return(FALSE, chunks')
             ELSE UNCHANGED <<chunks, fstack, calls>>
  /\ mem' = Peek(mem, mem[Top.ptr].rc)
  /\ UNCHANGED <<next, locals, vec, building, nres, borrow,
                 fmt, root, out, prevOut, ncalls>>

\* Value::Rc(x) => match &*x.borrow() { .., Some(x) => self.visit(x) }
\* The Ref guard lives until the match ends, i.e. across the inner call.
VisitRcSome ==
  /\ Entering
  /\ ~Seen(visited, PtrOf(Top.ptr))
  /\ mem[Top.ptr].tag = "Rc"
  /\ mem[mem[Top.ptr].rc] # None
  /\ visited' = Insert(visited, PtrOf(Top.ptr))
  /\ LET c == mem[Top.ptr].rc
     IN IF ~CanBorrow(borrow[c])
        THEN /\ panicked' = "already mutably borrowed: BorrowError"
             /\ UNCHANGED <<borrow, fstack, calls, ncalls>>
        ELSE /\ panicked' = panicked
             /\ borrow' = [borrow EXCEPT ![c] = @ + 1]
             /\ Call("rc", 0, c, chunks)
  /\ mem' = Peek(mem, mem[Top.ptr].rc)
  /\ UNCHANGED <<next, locals, vec, building, nres,
                 fmt, root, chunks, out, prevOut>>

\* The inner visit of an Rc's contents has returned: the Ref guard drops.
RcReturn ==
  /\ Running
  /\ Top.pc = "rc"
  /\ borrow' = [borrow EXCEPT ![mem[Top.ptr].rc] = @ - 1]
  /\ Return(FALSE, chunks)
  /\ UNCHANGED <<mem, next, locals, vec, building, nres, panicked,
                 fmt, root, visited, chunks, out, prevOut, ncalls>>

\* Value::List(xs) => { self.add("["); ...
VisitList ==
  /\ Entering
  /\ ~Seen(visited, PtrOf(Top.ptr))
  /\ mem[Top.ptr].tag = "List"
  /\ visited' = Insert(visited, PtrOf(Top.ptr))
  /\ chunks' = add(chunks, "[")
  /\ fstack' = [fstack EXCEPT ![Len(fstack)] = [@ EXCEPT !.pc = "list", !.i = 0]]
  /\ UNCHANGED <<mem, next, locals, vec, building, nres, borrow, panicked,
                 fmt, root, out, prevOut, calls, ncalls>>

\* self.visit(xs.first()), then for x in &xs[1..] { self.add(", "); self.visit(x) }
ListNext ==
  /\ Running
  /\ Top.pc = "list"
  /\ Top.i < Len(mem[Top.ptr].xs)
  /\ chunks' = IF Top.i = 0 THEN chunks ELSE add(chunks, ", ")
  /\ Call("list", Top.i + 1, mem[Top.ptr].xs[Top.i + 1], chunks')
  /\ UNCHANGED <<mem, next, locals, vec, building, nres, borrow, panicked,
                 fmt, root, visited, out, prevOut>>

\* ... self.add("]") }
ListClose ==
  /\ Running
  /\ Top.pc = "list"
  /\ Top.i = Len(mem[Top.ptr].xs)
  /\ chunks' = add(chunks, "]")
  /\ Return(FALSE, chunks')
  /\ UNCHANGED <<mem, next, locals, vec, building, nres, borrow, panicked,
                 fmt, root, visited, out, prevOut, ncalls>>

\* fmt: let x = fmt1.string(); write!(fmt, "{}", x)
FmtEnd ==
  /\ fmt = "run" /\ panicked = "" /\ fstack = <<>>
  /\ out' = string(chunks)
  /\ fmt' = "idle"
  /\ UNCHANGED <<mem, next, locals, vec, building, nres, borrow, panicked,
                 root, fstack, visited, chunks, prevOut, calls, ncalls>>

----------------------------------------------------------------------------
FmtStep ==
  \/ VisitSeen
  \/ VisitInt
  \/ VisitRcNone
  \/ VisitRcSome
  \/ RcReturn
  \/ VisitList
  \/ ListNext
  \/ ListClose
  \/ FmtEnd

Next ==
  \/ \E n \in Ints : LetInt(n)
  \/ LetRc
  \/ VecNew
  \/ \E n \in Ints : VecPushInt(n)
  \/ VecPushRc
  \/ \E v \in Addr : VecPushClone(v)
  \/ LetList
  \/ \E t \in Addr, n \in Ints : ResolveInt(t, n)
  \/ \E t \in Addr, w \in Addr : ResolveClone(t, w)
  \/ \E t \in Addr, w \in Addr : ResolveMove(t, w)
  \/ \E r \in Addr : FmtBegin(r)
  \/ VisitSeen
  \/ VisitInt
  \/ VisitRcNone
  \/ VisitRcSome
  \/ RcReturn
  \/ VisitList
  \/ ListNext
  \/ ListClose
  \/ FmtEnd

Spec == Init /\ [][Next]_vars

\* A fmt call is a synchronous computation: once begun it keeps running.
FairSpec == Spec /\ WF_vars(FmtStep)

----------------------------------------------------------------------------
\* Vocabulary of the properties

\* A fmt call on root has completed and nothing has run since.
Done == fmt = "idle" /\ out # NoOut

\* The text a returned visit call appended to the buffer.
Rendering(c) == string(SubSeq(chunks, c.start + 1, c.end))

Calls == {calls[k] : k \in 1..Len(calls)}

IsHandle(a) == mem[a].tag = "Rc"

\* The Value addresses a visit of a goes on to: the elements of a list, the
\* contents of an initialized cell.
Succ(a) ==
  IF mem[a].tag = "List" THEN {mem[a].xs[i] : i \in 1..Len(mem[a].xs)}
  ELSE IF mem[a].tag = "Rc" /\ mem[mem[a].rc] # None THEN {mem[a].rc}
  ELSE {}

RECURSIVE Closure(_)
Closure(S) ==
  LET T == S \cup UNION {Succ(a) : a \in S}
  IN IF T = S THEN S ELSE Closure(T)

Reach(r) == Closure({r})

\* No cell storage is reachable from r through more than one handle.
Tree(r) ==
  \A a, b \in Reach(r) :
    (a # b /\ IsHandle(a) /\ IsHandle(b)) => mem[a].rc # mem[b].rc

\* The cell at c is not reachable from its own contents.
Acyclic(c) ==
  \A a \in Closure(Succ(c) \cup {c}) : IsHandle(a) => mem[a].rc # c

\* The plain structural rendering (defined on trees).
RECURSIVE Structural(_)
RECURSIVE StructuralItems(_, _)
StructuralItems(xs, i) ==
  IF i > Len(xs) THEN ""
  ELSE (IF i = 1 THEN "" ELSE ", ") \o Structural(xs[i]) \o StructuralItems(xs, i + 1)
Structural(a) ==
  IF mem[a].tag = "Int" THEN Dec(mem[a].n)
  ELSE IF mem[a].tag = "Rc"
  THEN (IF mem[mem[a].rc] = None THEN "uninit" ELSE Structural(mem[a].rc))
  ELSE "[" \o StructuralItems(mem[a].xs, 1) \o "]"

\* The node identities of the specification reachable from r: an Int or a
\* List is a node, a cell is one node however many handles lead to it.
NodeIds(r) ==
  {<<"cell", mem[a].rc>> : a \in {b \in Reach(r) : IsHandle(b)}}
    \cup {<<"value", a>> : a \in {b \in Reach(r) : ~IsHandle(b)}}

\* Visit calls of this fmt call that passed the already-visited check.
NonTrivial ==
  Cardinality({k \in 1..Len(calls) : ~calls[k].hit})
    + Cardinality({k \in 1..Len(fstack) : fstack[k].pc # "visit"})

\* The cell storages some handle in memory leads to.
Slots == {mem[a].rc : a \in {b \in Addr : IsHandle(b)}}

----------------------------------------------------------------------------
\* C1: every fmt call terminates and returns a string, and nothing panics
\* while it runs (no failed borrow, no failure on an uninitialized cell),
\* whatever the graph: acyclic, shared, cyclic, self-referring cell.
C1_FormatTotal ==
  /\ [](fmt = "run" => panicked = "")
  /\ (fmt = "run") ~> (fmt = "idle" /\ out # NoOut)

\* A fmt call has returned on a cell that was resolved to a clone of itself.
C1_Witness ==
  /\ Done
  /\ IsHandle(root)
  /\ mem[mem[root].rc] = RcV(mem[root].rc)
  /\ out = "*"

----------------------------------------------------------------------------
\* The list in cell c is a run of Ints followed by k >= 1 handles of c.
IntsThenClones(c) ==
  /\ mem[c].tag = "List"
  /\ LET xs == mem[c].xs
     IN \E k \in 1..Len(xs) :
          \A i \in 1..Len(xs) :
            IF i <= Len(xs) - k THEN mem[xs[i]].tag = "Int"
            ELSE mem[xs[i]] = RcV(c)

RECURSIVE CycleItems(_, _)
CycleItems(xs, i) ==
  IF i > Len(xs) THEN ""
  ELSE (IF i = 1 THEN "" ELSE ", ")
         \o (IF mem[xs[i]].tag = "Int" THEN Dec(mem[xs[i]].n) ELSE "*")
         \o CycleItems(xs, i + 1)

\* C2: fmt of a cell x renders "uninit" while x is unresolved, and once x
\* is resolved to a list of ints followed by k >= 1 clones of x it renders
\* that list once, every clone of x as "*".
C2_TrueCycle ==
  (Done /\ IsHandle(root)) =>
    LET c == mem[root].rc
    IN /\ mem[c] = None => out = "uninit"
       /\ IntsThenClones(c) => out = "[" \o CycleItems(mem[c].xs, 1) \o "]"

\* fmt has returned on a cell resolved to [int, clone of the cell].
C2_Witness ==
  /\ Done
  /\ IsHandle(root)
  /\ IntsThenClones(mem[root].rc)
  /\ Len(mem[mem[root].rc].xs) = 2
  /\ mem[mem[mem[root].rc].xs[1]].tag = "Int"
  /\ out = "[" \o Dec(mem[mem[mem[root].rc].xs[1]].n) \o ", *]"

----------------------------------------------------------------------------
\* C3: within one fmt call a cell's identity is its storage: the first
\* visit of a handle of a cell is rendered (it is not cut short as already
\* visited), and every later visit of a handle of the same storage appends
\* exactly "*", for initialized and uninitialized cells alike.
C3_StorageIdentity ==
  Done =>
    \A q \in Calls :
      IsHandle(q.ptr) =>
        IF \E p \in Calls :
             p.seq < q.seq /\ IsHandle(p.ptr) /\ mem[p.ptr].rc = mem[q.ptr].rc
        THEN Rendering(q) = "*"
        ELSE ~q.hit

----------------------------------------------------------------------------
\* The positions of list l that hold a handle of the cell at c.
Positions(l, c) == {i \in 1..Len(mem[l].xs) : mem[mem[l].xs[i]] = RcV(c)}

\* The returned call that visited the Value at address a (for an address
\* visited once).
CallOn(a) == CHOOSE q \in Calls : q.ptr = a

\* C4: when handles of one cell bound to an acyclic value sit in several
\* positions of the formatted list, the first of them that meets the cell
\* renders the contents in full and every later one renders "*".
C4_SharedCollapses ==
  (Done /\ mem[root].tag = "List") =>
    \A c \in Slots :
      LET E == Positions(root, c)
          xs == mem[root].xs
      IN (Cardinality(E) >= 2 /\ mem[c] # None /\ Acyclic(c)) =>
           \A i \in E :
             LET p == CallOn(xs[i])
             IN IF \E e \in Calls :
                     e.seq < p.seq /\ (e.ptr = c \/ mem[e.ptr] = RcV(c))
                THEN Rendering(p) = "*"
                ELSE /\ ~p.hit
                     /\ \E r \in Calls :
                          /\ r.ptr = c /\ ~r.hit /\ r.seq = p.seq + 1
                          /\ r.start = p.start /\ r.end = p.end
                     /\ mem[c].tag = "Int" => Rendering(p) = Dec(mem[c].n)
                     /\ (mem[c].tag = "Int" /\ Len(xs) = 2 /\ E = {1, 2}) =>
                          out = "[" \o Dec(mem[c].n) \o ", *]"

\* fmt has returned on a list of two handles of a cell bound to an Int.
C4_Witness ==
  /\ Done
  /\ mem[root].tag = "List"
  /\ Len(mem[root].xs) = 2
  /\ \E c \in Slots :
       /\ Positions(root, c) = {1, 2}
       /\ mem[c].tag = "Int"
       /\ out = "[" \o Dec(mem[c].n) \o ", *]"

----------------------------------------------------------------------------
\* A resolve call on the local t.
ResolveOn(t) ==
  \/ \E n \in Ints : ResolveInt(t, n)
  \/ \E w \in Addr : ResolveClone(t, w)
  \/ \E w \in Addr : ResolveMove(t, w)

\* C5: resolve on a value that is not an Rc always panics and changes
\* nothing: the target, every cell's contents and every list stay as they
\* were (an argument moved into the call is consumed by it).
C5_InvalidResolve ==
  [][\A t \in Addr :
       (ResolveOn(t) /\ mem[t].tag # "Rc") =>
          /\ panicked' = "Attempt to resolve non-rc value"
          /\ mem'[t] = mem[t]
          /\ \A a \in Addr :
               \/ mem'[a] = mem[a]
               \/ a \in locals \ locals' /\ a # t /\ mem'[a] = Free]_vars

\* A resolve call on an Int or List local has panicked.
C5_Witness ==
  /\ panicked = "Attempt to resolve non-rc value"
  /\ \E t \in locals : mem[t].tag \in {"Int", "List"}

----------------------------------------------------------------------------
\* The Value at b in memory n is a clone of the Value at a in memory m.
RECURSIVE IsClone(_, _, _, _)
IsClone(m, a, n, b) ==
  IF m[a].tag = "List"
  THEN /\ n[b].tag = "List"
       /\ Len(n[b].xs) = Len(m[a].xs)
       /\ \A i \in 1..Len(m[a].xs) :
            /\ m[n[b].xs[i]] = Free
            /\ IsClone(m, m[a].xs[i], n, n[b].xs[i])
  ELSE n[b] = m[a]

\* After a resolve on a handle of c, c holds what val says and no other
\* cell has changed.
Resolved(t, holds) ==
  LET c == mem[t].rc
  IN /\ panicked' = ""
     /\ holds
     /\ \A d \in Slots \ {c} : mem'[d] = mem[d]
     /\ \A a \in Addr : (IsHandle(a) /\ a \in locals') => mem'[a] = mem[a]

\* The visit of a handle shows the current contents of its storage.
ShowsContents(q) ==
  LET c == mem[q.ptr].rc
  IN IF mem[c] = None THEN Rendering(q) = "uninit"
     ELSE \E r \in Calls :
            /\ r.ptr = c /\ r.seq = q.seq + 1
            /\ r.start = q.start /\ r.end = q.end
            /\ (~r.hit /\ mem[c].tag = "Int") => Rendering(q) = Dec(mem[c].n)
            /\ (~r.hit /\ mem[c].tag = "List") =>
                 chunks[q.start + 1] = "[" /\ chunks[q.end] = "]"
            /\ r.hit => Rendering(q) = "*"

\* C6: a cell holds the value of the last resolve made through any handle
\* of its storage (nothing before the first one, a later resolve overwrites
\* an earlier), resolve changes no other cell, and fmt shows the current
\* contents through every handle of the storage.
C6_LastResolveWins ==
  /\ [](nres = 0 => \A c \in Slots : mem[c] = None)
  /\ [][\A t \in Addr :
          (mem[t].tag = "Rc") =>
            /\ \A n \in Ints :
                 ResolveInt(t, n) => Resolved(t, mem'[mem[t].rc] = IntV(n))
            /\ \A w \in Addr :
                 ResolveMove(t, w) => Resolved(t, mem'[mem[t].rc] = mem[w])
            /\ \A w \in Addr :
                 ResolveClone(t, w) =>
                   Resolved(t, IsClone(mem, w, mem', mem[t].rc))]_vars
  /\ [](Done => \A q \in Calls : (IsHandle(q.ptr) /\ ~q.hit) => ShowsContents(q))

\* Two resolve calls have gone to the only cell there is, and fmt has shown
\* its contents through a handle placed in a list.
C6_Witness ==
  /\ Done
  /\ nres = 2
  /\ panicked = ""
  /\ Cardinality(Slots) = 1
  /\ mem[root].tag = "List"
  /\ \E i \in 1..Len(mem[root].xs) :
       /\ IsHandle(mem[root].xs[i])
       /\ mem[mem[mem[root].xs[i]].rc].tag = "Int"
       /\ out = "[" \o Dec(mem[mem[mem[root].xs[i]].rc].n) \o "]"

----------------------------------------------------------------------------
\* C7: two fmt calls on the same root with no resolve in between write the
\* same string: the second starts from an empty visited set.
C7_FormatTwice ==
  (fmt = "idle" /\ prevOut # NoOut) => out = prevOut

\* The second of two fmt calls in a row has returned on a graph with a
\* shared or cyclic node, part of it rendered in full.
C7_Witness ==
  /\ Done
  /\ prevOut # NoOut
  /\ \E q \in Calls : q.hit
  /\ out # "*"

----------------------------------------------------------------------------
\* C8: a fmt call leaves the graph as it was: no step of it changes a
\* cell's contents, a list or a local, and every borrow it took is released
\* when it returns.
C8_FormatReadOnly ==
  /\ [][(fmt = "run" \/ fmt' = "run") =>
          (mem' = mem /\ locals' = locals /\ next' = next)]_vars
  /\ [](fmt = "idle" => \A a \in Addr : borrow[a] = 0)

\* fmt has returned after reading the contents of an initialized cell.
C8_Witness ==
  /\ Done
  /\ \E q \in Calls : IsHandle(q.ptr) /\ ~q.hit /\ mem[mem[q.ptr].rc] # None

----------------------------------------------------------------------------
\* C9: on a tree (no cell storage reachable through more than one handle)
\* fmt writes the plain structural rendering, and no "*".
C9_TreeRendering ==
  (Done /\ Tree(root)) =>
    /\ out = Structural(root)
    /\ \A k \in 1..Len(chunks) : chunks[k] # "*"

\* fmt has returned on a two-element list holding an Int and a cell.
C9_Witness ==
  /\ Done
  /\ Tree(root)
  /\ mem[root].tag = "List"
  /\ Len(mem[root].xs) = 2
  /\ \E i, j \in 1..2 :
       /\ IsHandle(mem[root].xs[i])
       /\ mem[mem[root].xs[j]].tag = "Int"

----------------------------------------------------------------------------
\* C10: during a fmt call the visited set has one entry per visit that
\* passed the already-visited check, a node is in the set while its
\* contents are visited, and the number of such visits is at most the
\* number of node identities reachable from the root, a cell counted once
\* however many handles lead to it.
C10_VisitBound ==
  (fmt = "run" /\ panicked = "") =>
    /\ Cardinality(visited) = NonTrivial
    /\ \A k \in 1..Len(fstack) : fstack[k].pc # "visit" => fstack[k].ptr \in visited
    /\ NonTrivial <= Cardinality(NodeIds(root))

====
